---- MODULE Spec2Model ----
\* Model of main.py: the weekday feature builder (add_weekday_dummies), the
\* per-group forecaster (forecast) and the two request handlers
\* (/predict: predict_sales, /report: generate_weekly_report).
\*
\* Column names of the source are Japanese; the model uses these ASCII names:
\*   "date" = hizuke (date column)        "product"  = shouhin-mei (product name)
\*   "category" = kategori                "amount"   = hanbai-kingaku (sales amount)
\*   indicator column k = youbi_k (weekday indicator, prefix "youbi", index k)
EXTENDS Integers, Sequences, FiniteSets, TLC

VARIABLES kind, upload, periods, group_col, pc, call, df, fdf, target_dates,
          pending, results, fitted, product_preds, category_preds, date_preds,
          graphs, summary, err, response, out1, out2

vars == <<kind, upload, periods, group_col, pc, call, df, fdf, target_dates,
          pending, results, fitted, product_preds, category_preds, date_preds,
          graphs, summary, err, response, out1, out2>>

\* ---------------------------------------------------------------- bounds
\* Day numbers count calendar days from a Monday, so day d falls on weekday
\* d % 7.  The uploaded tables carry dates FirstDay .. FirstDay + MaxDay.
FirstDay == 5
MaxDay == 1
\* forecast is called directly with periods in 0 .. MaxPeriods
MaxPeriods == 2

\* ------------------------------------------------------ program constants
MinRows == 10
DefaultPeriods == 7

\* ---------------------------------------------------------------- helpers
None == "None"
NaT == "NaT"
\* the text of a date cell that is not a date
Malformed == FirstDay - 1

Range(s) == {s[i] : i \in DOMAIN s}

Min(S) == CHOOSE x \in S : \A y \in S : x <= y
Max(S) == CHOOSE x \in S : \A y \in S : y <= x

RECURSIVE SortedSeq(_)
\* ascending sequence of the members of a finite set of integers
SortedSeq(S) == IF S = {} THEN <<>> ELSE <<Min(S)>> \o SortedSeq(S \ {Min(S)})

Repeat(x, n) == [i \in 1..n |-> x]

IndexOf(s, x) == Min({i \in DOMAIN s : s[i] = x})

\* ------------------------------------------------------- the uploaded CSV
Days == FirstDay .. (FirstDay + MaxDay)
ProductSeq == <<"A", "B">>
Products == Range(ProductSeq)
CategoryOf == [p \in Products |-> "deli"]
\* rows of one product on one date: none, one below the threshold, the threshold
Mults == {0, 1, MinRows - 1, MinRows}
Defects == {"none", "date", "amount", "csv"}

GoodAmount == <<"1", ",", "2", "0", "0">>
BadAmount == <<"a", "b", "c">>

\* the (product, date) cells in file order: latest date first within the file
CellOrder ==
    [i \in 1 .. (Len(ProductSeq) * (MaxDay + 1)) |->
        <<ProductSeq[((i - 1) % Len(ProductSeq)) + 1],
          FirstDay + MaxDay - ((i - 1) \div Len(ProductSeq))>>]

RawRow(p, d, a) ==
    [date |-> [text |-> d], product |-> p, category |-> CategoryOf[p],
     amount |-> [text |-> a], ind |-> <<>>]

RECURSIVE RowsFrom(_, _)
RowsFrom(cnt, cells) ==
    IF cells = <<>> THEN <<>>
    ELSE Repeat(RawRow(Head(cells)[1], Head(cells)[2], GoodAmount), cnt[Head(cells)])
         \o RowsFrom(cnt, Tail(cells))

\* a file may go on with one row of product "A" on each of the next u.span days
SpanRows(u) == [i \in 1 .. u.span |-> RawRow("A", FirstDay + MaxDay + i, GoodAmount)]

\* and may hold one defective row
DefectRows(u) ==
    IF u.defect = "date" THEN <<RawRow("A", Malformed, GoodAmount)>>
    ELSE IF u.defect = "amount" THEN <<RawRow("A", FirstDay, BadAmount)>>
    ELSE <<>>

\* short files with up to MinRows rows per product and date, and long files
\* that cover MinRows further dates
Uploads ==
    [cnt : [Products \X Days -> Mults], span : {0}, defect : Defects]
    \cup [cnt : [Products \X Days -> {0, 1}], span : {MinRows}, defect : Defects]

ValidDates == FirstDay .. (FirstDay + MaxDay + MinRows)

\* pd.read_csv: a frame has its rows and the names of its indicator columns
CsvOk(u) == u.defect # "csv"
read_csv(u) ==
    [cols |-> <<>>,
     rows |-> RowsFrom(u.cnt, CellOrder) \o SpanRows(u) \o DefectRows(u)]

\* ------------------------------------------------- clean_numeric_column
Digits == {"0", "1", "2", "3", "4", "5", "6", "7", "8", "9"}
DigitVal == [c \in Digits |->
    CASE c = "0" -> 0 [] c = "1" -> 1 [] c = "2" -> 2 [] c = "3" -> 3
      [] c = "4" -> 4 [] c = "5" -> 5 [] c = "6" -> 6 [] c = "7" -> 7
      [] c = "8" -> 8 [] c = "9" -> 9]

StripCommas(s) == SelectSeq(s, LAMBDA c : c # ",")

RECURSIVE DigitsValue(_)
DigitsValue(s) ==
    IF s = <<>> THEN 0 ELSE 10 * DigitsValue(SubSeq(s, 1, Len(s) - 1)) + DigitVal[s[Len(s)]]

IsText(a) == "text" \in DOMAIN a
\* astype(float) raises on a cell that is not a number once commas are removed
FloatOk(a) ==
    IsText(a) => (StripCommas(a.text) # <<>> /\ Range(StripCommas(a.text)) \subseteq Digits)
ToFloat(a) == IF IsText(a) THEN [num |-> DigitsValue(StripCommas(a.text))] ELSE a

CleanOk(f) == \A i \in DOMAIN f.rows : FloatOk(f.rows[i].amount)
clean_numeric_column(f) ==
    [f EXCEPT !.rows = [i \in DOMAIN f.rows |->
        [f.rows[i] EXCEPT !.amount = ToFloat(f.rows[i].amount)]]]

\* ---------------------------------------------------- add_weekday_dummies
\* dayofweek counting from Sunday = 0
dayofweekM(d) == (d + 1) % 7

dayofweek(d) == d % 7

\* pd.to_datetime on one cell: text is parsed, a timestamp is kept
DateOk(x) == ("text" \in DOMAIN x) => x.text \in ValidDates
to_datetime(x) == IF "text" \in DOMAIN x THEN [day |-> x.text] ELSE x

ParseOk(f) == \A i \in DOMAIN f.rows : DateOk(f.rows[i].date)

\* get_dummies with a column for every weekday, whether it occurs or not
get_dummiesM(values) ==
    [cols |-> [k \in 1 .. 7 |-> k - 1],
     rows |-> [i \in DOMAIN values |-> [k \in 1 .. 7 |-> k - 1 = values[i]]]]

\* pd.get_dummies(values, prefix): one column per level that occurs, in sorted
\* order, and one row per value
get_dummies(values) ==
    [cols |-> SortedSeq(Range(values)),
     rows |-> [i \in DOMAIN values |->
                 [k \in 1 .. Cardinality(Range(values)) |->
                     SortedSeq(Range(values))[k] = values[i]]]]

\* lines 130-131 assign into the caller's frame: the date column becomes
\* timestamps and an integer weekday column "wd" is added (or overwritten)
with_weekday(f) ==
    [f EXCEPT !.rows = [i \in DOMAIN f.rows |->
        ("wd" :> dayofweek(to_datetime(f.rows[i].date).day))
            @@ [f.rows[i] EXCEPT !.date = to_datetime(f.rows[i].date)]]]

\* add_weekday_dummies replacing the indicator columns the frame already has
add_weekday_dummiesM(f) ==
    LET wd == [i \in DOMAIN f.rows |-> to_datetime(f.rows[i].date).day % 7]
    IN  [cols |-> SortedSeq(Range(wd)),
         rows |-> [i \in DOMAIN f.rows |->
                     [c \in (DOMAIN f.rows[i]) \ {"wd"} |->
                         IF c = "ind"
                         THEN [k \in 1 .. Cardinality(Range(wd)) |->
                                  SortedSeq(Range(wd))[k] = wd[i]]
                         ELSE IF c = "date" THEN to_datetime(f.rows[i].date)
                         ELSE f.rows[i][c]]]]

\* defined when ParseOk(f).  get_dummies(df, columns=[wd]) drops the weekday
\* column and appends its dummies after the columns the frame already has.
add_weekday_dummies(f) ==
    LET g == with_weekday(f)
        dm == get_dummies([i \in DOMAIN g.rows |-> g.rows[i].wd])
    IN  [cols |-> f.cols \o dm.cols,
         rows |-> [i \in DOMAIN g.rows |->
                     [c \in (DOMAIN g.rows[i]) \ {"wd"} |->
                         IF c = "ind" THEN g.rows[i].ind \o dm.rows[i]
                         ELSE g.rows[i][c]]]]

\* ---------------------------------------------------------------- forecast
CategorySeq == <<"deli">>
GroupCols == {"product", "category", "date"}

\* df.groupby(group_col) iterates over the keys in sorted order
Rank(col, k) ==
    IF col = "date" THEN k.day
    ELSE IF col = "product" THEN IndexOf(ProductSeq, k)
    ELSE IndexOf(CategorySeq, k)

GroupKeys(f, col) == {f.rows[i][col] : i \in DOMAIN f.rows}
NextKey(col, keys) == CHOOSE k \in keys : \A o \in keys : Rank(col, k) <= Rank(col, o)
Group(f, col, key) == SelectSeq(f.rows, LAMBDA r : r[col] = key)

MaxDate(rows) == IF rows = <<>> THEN NaT ELSE Max({rows[i].date.day : i \in DOMAIN rows})

\* TargetDates counting from the latest date itself instead of the day after
TargetDatesM(f, n) ==
    [i \in 1 .. n |-> IF f.rows = <<>> THEN NaT ELSE MaxDate(f.rows) + (i - 1)]

\* line 139: the dates of the forecast, counted from the frame's latest date
TargetDates(f, n) ==
    [i \in 1 .. n |-> IF f.rows = <<>> THEN NaT ELSE MaxDate(f.rows) + ((i - 1) + 1)]

\* lines 149-150
FutureWeekdays(last_weekday, n) == [i \in 1 .. n |-> (last_weekday + (i - 1) + 1) % 7]

\* AlignedFuture without the selection of X's columns (line 155)
AlignedFutureM(fw, Xcols) ==
    LET d == [cols |-> SortedSeq(Range(fw)),
              rows |-> [i \in DOMAIN fw |->
                          [k \in 1 .. Cardinality(Range(fw)) |->
                              SortedSeq(Range(fw))[k] = fw[i]]]]
        added == SelectSeq(Xcols, LAMBDA c : c \notin Range(d.cols))
    IN  [cols |-> d.cols \o added,
         rows |-> [i \in DOMAIN d.rows |-> d.rows[i] \o Repeat(FALSE, Len(added))]]

\* lines 151-155: dummies of the future weekdays, the columns of X that are
\* missing added as zeros, then the columns of X selected in X's order
AlignedFuture(fw, Xcols) ==
    LET d == get_dummies(fw)
        added == SelectSeq(Xcols, LAMBDA c : c \notin Range(d.cols))
        full == [cols |-> d.cols \o added,
                 rows |-> [i \in DOMAIN d.rows |-> d.rows[i] \o Repeat(FALSE, Len(added))]]
    IN  [cols |-> Xcols,
         rows |-> [i \in DOMAIN full.rows |->
                     [k \in 1 .. Len(Xcols) |-> full.rows[i][IndexOf(full.cols, Xcols[k])]]]]

\* str(d.date()): the ISO text of a date
isoformat(d) == [iso |-> d]

\* dict(zip(keys, vals)): a later pair replaces an earlier one with the same key
DictZip(keys, vals) ==
    [k \in Range(keys) |-> vals[Max({i \in DOMAIN keys : keys[i] = k})]]

\* lines 143-155 for one group: what the model is fitted on and what it is
\* asked to predict
FitGroup(f, col, key, n) ==
    LET g == Group(f, col, key)
        last_weekday == dayofweek(MaxDate(g))
        fw == FutureWeekdays(last_weekday, n)
    IN  [X |-> f.cols, rows |-> Len(g), last_weekday |-> last_weekday,
         future_weekdays |-> fw, future_df |-> AlignedFuture(fw, f.cols)]

\* line 158: the value predicted for a future row is a function of the fitted
\* model and that row; it is kept as the row it was predicted from
GroupForecast(fit, dates) ==
    DictZip([i \in DOMAIN dates |-> isoformat(dates[i])],
            [i \in DOMAIN fit.future_df.rows |-> [x |-> fit.future_df.rows[i]]])

\* TooSmall with the comparison off by one
TooSmallM(g) == Len(g) <= MinRows

\* line 145
TooSmall(g) == Len(g) < MinRows

\* line 197: one row per date with the summed amount, in date order
RECURSIVE SumAmount(_)
SumAmount(rows) ==
    IF rows = <<>> THEN 0 ELSE Head(rows).amount.num + SumAmount(Tail(rows))

aggregate(f) ==
    LET ks == SortedSeq({f.rows[i].date.day : i \in DOMAIN f.rows})
    IN  [cols |-> <<>>,
         rows |-> [j \in DOMAIN ks |->
                     [date |-> [day |-> ks[j]],
                      amount |-> [num |-> SumAmount(Group(f, "date", [day |-> ks[j]]))],
                      ind |-> <<>>]]]

\* --------------------------------------------------------------- responses
EmptyFrame == [cols |-> <<>>, rows |-> <<>>]
NoResponse == [status |-> 0, body |-> <<>>]

\* ErrorPayload without the failure status
ErrorPayloadM(e) == [status |-> 200, body |-> [error |-> e]]

\* lines 186 and 206: JSONResponse(status_code=500, content={"error": str(e)})
ErrorPayload(e) == [status |-> 500, body |-> [error |-> e]]

\* lines 199-203
PredictPayload(p, c, d) ==
    [status |-> 200,
     body |-> [product_forecast |-> p, category_forecast |-> c, date_forecast |-> d]]

\* line 184
ReportPayload(s, g) == [status |-> 200, body |-> [html |-> <<s, g>>]]

GraphTitles == <<"daily sales", "category share", "product quantity">>

\* ------------------------------------------------------------------- state
Kinds == {"feature", "forecast", "predict", "report"}
Handlers == {"predict", "report"}

StartPc(k) == IF k = "feature" THEN "f1" ELSE IF k = "forecast" THEN "fc_begin" ELSE "read"

Init ==
    /\ kind \in Kinds
    /\ upload \in Uploads
    /\ kind \notin Handlers => CsvOk(upload)
    /\ periods \in (IF kind = "forecast" THEN 0 .. MaxPeriods ELSE {DefaultPeriods})
    /\ group_col = (IF kind = "forecast" THEN "product" ELSE None)
    /\ pc = StartPc(kind)
    /\ call = 0
    /\ df = (IF kind \in Handlers THEN EmptyFrame ELSE read_csv(upload))
    /\ fdf = EmptyFrame
    /\ target_dates = <<>>
    /\ pending = {}
    /\ results = <<>>
    /\ fitted = <<>>
    /\ product_preds = <<>>
    /\ category_preds = <<>>
    /\ date_preds = <<>>
    /\ graphs = <<>>
    /\ summary = None
    /\ err = None
    /\ response = NoResponse
    /\ out1 = EmptyFrame
    /\ out2 = EmptyFrame

\* an exception leaves the function; in a handler the except clause catches it
Raise(e) ==
    /\ err' = e
    /\ pc' = (IF kind \in Handlers THEN "except" ELSE "raised")

forecast_vars == <<fdf, target_dates, pending, results, fitted>>
preds_vars == <<product_preds, category_preds, date_preds>>
report_vars == <<graphs, summary>>
feature_vars == <<out1, out2>>
input_vars == <<kind, upload, periods>>

\* ------------------------------------------- the feature builder on its own
FeatureFirst ==
    /\ pc = "f1"
    /\ IF ParseOk(df)
       THEN /\ out1' = add_weekday_dummies(df)
            /\ df' = with_weekday(df)
            /\ pc' = "f2"
            /\ UNCHANGED <<err, out2>>
       ELSE /\ Raise("DateParseError")
            /\ UNCHANGED <<df, out1, out2>>
    /\ UNCHANGED <<input_vars, group_col, call, forecast_vars, preds_vars,
                   report_vars, response>>

FeatureSecond ==
    /\ pc = "f2"
    /\ out2' = add_weekday_dummies(out1)
    /\ pc' = "done"
    /\ UNCHANGED <<input_vars, group_col, call, df, forecast_vars, preds_vars,
                   report_vars, err, response, out1>>

\* ---------------------------------------------------------------- forecast
\* the frame forecast is called on: line 197 passes the per-date aggregate
Arg == IF kind = "predict" /\ call = 3 THEN aggregate(df) ELSE df

\* what lines 130-131 leave in the caller's frame (the aggregate is a temporary)
Mutated == IF kind = "predict" /\ call = 3 THEN df ELSE with_weekday(df)

\* lines 136-141
ForecastBegin ==
    /\ pc = "fc_begin"
    /\ IF ~ParseOk(Arg)
       THEN /\ Raise("DateParseError")
            /\ UNCHANGED <<df, forecast_vars>>
       ELSE IF ~CleanOk(Arg)
       THEN /\ Raise("ValueError")
            /\ df' = Mutated
            /\ UNCHANGED forecast_vars
       ELSE /\ fdf' = clean_numeric_column(add_weekday_dummies(Arg))
            /\ target_dates' = TargetDates(fdf', periods)
            /\ pending' = GroupKeys(fdf', group_col)
            /\ results' = <<>>
            /\ fitted' = <<>>
            /\ df' = Mutated
            /\ pc' = "fc_loop"
            /\ UNCHANGED err
    /\ UNCHANGED <<input_vars, group_col, call, preds_vars, report_vars, response,
                   feature_vars>>

\* line 145: a group below the threshold is passed over
ForecastSkip ==
    /\ pc = "fc_loop"
    /\ pending # {}
    /\ TooSmall(Group(fdf, group_col, NextKey(group_col, pending)))
    /\ pending' = pending \ {NextKey(group_col, pending)}
    /\ UNCHANGED <<input_vars, group_col, pc, call, df, fdf, target_dates, results,
                   fitted, preds_vars, report_vars, err, response, feature_vars>>

\* the regressor's predict refuses an empty frame in some releases of the library
PredictOutcomes(n) == IF n = 0 THEN {"ok", "raise"} ELSE {"ok"}

\* lines 146-158
ForecastFit ==
    /\ pc = "fc_loop"
    /\ pending # {}
    /\ ~TooSmall(Group(fdf, group_col, NextKey(group_col, pending)))
    /\ \E outcome \in PredictOutcomes(periods) :
        LET key == NextKey(group_col, pending)
            fit == FitGroup(fdf, group_col, key, periods)
        IN  IF outcome = "ok"
            THEN /\ results' = (key :> GroupForecast(fit, target_dates)) @@ results
                 /\ fitted' = (key :> fit) @@ fitted
                 /\ pending' = pending \ {key}
                 /\ UNCHANGED <<pc, err>>
            ELSE /\ Raise("ValueError")
                 /\ UNCHANGED <<pending, results, fitted>>
    /\ UNCHANGED <<input_vars, group_col, call, df, fdf, target_dates, preds_vars,
                   report_vars, response, feature_vars>>

\* line 160, and in predict_sales the assignment of the result (lines 195-197)
ForecastReturn ==
    /\ pc = "fc_loop"
    /\ pending = {}
    /\ IF kind = "forecast"
       THEN /\ pc' = "done"
            /\ UNCHANGED <<call, group_col, preds_vars>>
       ELSE /\ call' = call + 1
            /\ product_preds' = (IF call = 1 THEN results ELSE product_preds)
            /\ category_preds' = (IF call = 2 THEN results ELSE category_preds)
            /\ date_preds' = (IF call = 3 THEN results ELSE date_preds)
            /\ group_col' = (IF call = 1 THEN "category" ELSE "date")
            /\ pc' = (IF call = 3 THEN "respond" ELSE "fc_begin")
    /\ UNCHANGED <<input_vars, df, forecast_vars, report_vars, err, response,
                   feature_vars>>

\* ----------------------------------------------------------- predict_sales
\* lines 191-192
PredictRead ==
    /\ kind = "predict"
    /\ pc = "read"
    /\ IF CsvOk(upload)
       THEN /\ df' = read_csv(upload)
            /\ pc' = "clean"
            /\ UNCHANGED err
       ELSE /\ Raise("ParserError")
            /\ UNCHANGED df
    /\ UNCHANGED <<input_vars, group_col, call, forecast_vars, preds_vars,
                   report_vars, response, feature_vars>>

\* line 193, then the first call of forecast at line 195
PredictClean ==
    /\ kind = "predict"
    /\ pc = "clean"
    /\ IF CleanOk(df)
       THEN /\ df' = clean_numeric_column(df)
            /\ call' = 1
            /\ group_col' = "product"
            /\ pc' = "fc_begin"
            /\ UNCHANGED err
       ELSE /\ Raise("ValueError")
            /\ UNCHANGED <<df, call, group_col>>
    /\ UNCHANGED <<input_vars, forecast_vars, preds_vars, report_vars, response,
                   feature_vars>>

\* lines 199-203
PredictRespond ==
    /\ kind = "predict"
    /\ pc = "respond"
    /\ response' = PredictPayload(product_preds, category_preds, date_preds)
    /\ pc' = "done"
    /\ UNCHANGED <<input_vars, group_col, call, df, forecast_vars, preds_vars,
                   report_vars, err, feature_vars>>

\* lines 185-186 and 205-206
HandleException ==
    /\ pc = "except"
    /\ response' = ErrorPayload(err)
    /\ pc' = "done"
    /\ UNCHANGED <<input_vars, group_col, call, df, forecast_vars, preds_vars,
                   report_vars, err, feature_vars>>

\* -------------------------------------------------- generate_weekly_report
\* lines 165-166
ReportRead ==
    /\ kind = "report"
    /\ pc = "read"
    /\ IF CsvOk(upload)
       THEN /\ df' = read_csv(upload)
            /\ pc' = "clean"
            /\ UNCHANGED err
       ELSE /\ Raise("ParserError")
            /\ UNCHANGED df
    /\ UNCHANGED <<input_vars, group_col, call, forecast_vars, preds_vars,
                   report_vars, response, feature_vars>>

\* lines 167-168
ReportClean ==
    /\ kind = "report"
    /\ pc = "clean"
    /\ IF CleanOk(df)
       THEN /\ df' = clean_numeric_column(df)
            /\ pc' = "graphs"
            /\ UNCHANGED err
       ELSE /\ Raise("ValueError")
            /\ UNCHANGED df
    /\ UNCHANGED <<input_vars, group_col, call, forecast_vars, preds_vars,
                   report_vars, response, feature_vars>>

\* lines 169-170: rendering and saving the charts can fail (dates are not parsed
\* here: the date column is grouped as text)
ReportGraphs ==
    /\ kind = "report"
    /\ pc = "graphs"
    /\ \E ok \in BOOLEAN :
        IF ok
        THEN /\ graphs' = GraphTitles
             /\ pc' = "summarize"
             /\ UNCHANGED err
        ELSE /\ Raise("chart rendering failed")
             /\ UNCHANGED graphs
    /\ UNCHANGED <<input_vars, group_col, call, df, forecast_vars, preds_vars,
                   summary, response, feature_vars>>

\* lines 172-180: the prompt is built and the summarizer is called once
ReportSummarize ==
    /\ kind = "report"
    /\ pc = "summarize"
    /\ \E ok \in BOOLEAN :
        IF ok
        THEN /\ summary' = "summary"
             /\ pc' = "respond"
             /\ UNCHANGED err
        ELSE /\ Raise("summarizer failed")
             /\ UNCHANGED summary
    /\ UNCHANGED <<input_vars, group_col, call, df, forecast_vars, preds_vars,
                   graphs, response, feature_vars>>

\* lines 181-184
ReportRespond ==
    /\ kind = "report"
    /\ pc = "respond"
    /\ response' = ReportPayload(summary, graphs)
    /\ pc' = "done"
    /\ UNCHANGED <<input_vars, group_col, call, df, forecast_vars, preds_vars,
                   report_vars, err, feature_vars>>

Next ==
    \/ FeatureFirst
    \/ FeatureSecond
    \/ ForecastBegin
    \/ ForecastSkip
    \/ ForecastFit
    \/ ForecastReturn
    \/ PredictRead
    \/ PredictClean
    \/ PredictRespond
    \/ HandleException
    \/ ReportRead
    \/ ReportClean
    \/ ReportGraphs
    \/ ReportSummarize
    \/ ReportRespond

Spec == Init /\ [][Next]_vars

\* ================================================================== claims
\* the uploaded table as the caller holds it before any call
Input == read_csv(upload)
InputDays == {Input.rows[i].date.text : i \in DOMAIN Input.rows}
InputWeekdays == {d % 7 : d \in InputDays}
\* the rows of the frame under forecast that belong to group k
RowsOf(k) == {i \in DOMAIN Arg.rows : Arg.rows[i][group_col] = k}
OwnMax(k) == Max({Arg.rows[i].date.day : i \in RowsOf(k)})
Returned == kind = "forecast" /\ pc = "done"

\* the date keys G+1 .. G+n
DatesAfter(G, n) == {isoformat(G + i) : i \in 1 .. n}
KeysFollow(r, G, n) ==
    \A k \in DOMAIN r : DOMAIN r[k] = DatesAfter(G, n) /\ Cardinality(DOMAIN r[k]) = n

\* C1: every GroupForecast that forecast produces has exactly `periods` date
\* keys, the consecutive days G+1 .. G+periods after the latest date G of the
\* whole input table, so all groups of one result have the same keys; this
\* holds of the result under construction and of the mappings /predict keeps.
C1_GlobalDateKeys ==
    /\ KeysFollow(results, Max(InputDays), periods)
    /\ KeysFollow(product_preds, Max(InputDays), DefaultPeriods)
    /\ KeysFollow(category_preds, Max(InputDays), DefaultPeriods)
    /\ KeysFollow(date_preds, Max(InputDays), DefaultPeriods)

\* two groups that end on different dates are both forecast
C1_Witness ==
    /\ Returned
    /\ periods = MaxPeriods
    /\ DOMAIN results = Products
    /\ fitted["A"].last_weekday # fitted["B"].last_weekday

\* C2: every GroupForecast has one entry per consecutive day starting the day
\* after the group's own latest observed date.
C2_OwnLatestDate ==
    (pc = "fc_loop" \/ Returned) =>
        \A k \in DOMAIN results : DOMAIN results[k] = DatesAfter(OwnMax(k), periods)

C4_SingleDateGroup ==
    (kind = "predict" /\ pc = "done" /\ response.status = 200
        /\ Cardinality(InputDays) >= MinRows) =>
        /\ DOMAIN response.body.date_forecast # {}
        /\ \A k \in DOMAIN response.body.date_forecast :
              Cardinality(DOMAIN response.body.date_forecast[k]) = DefaultPeriods

\* C5: a request to /predict or /report ends in exactly one of two outcomes,
\* the full result with status 200 or the payload {error: description} with
\* status 500; once a stage has raised the handler only answers (no stage runs
\* again), and nothing that earlier stages produced is in the error response.
C5_AllOrError ==
    kind \in Handlers =>
        /\ pc # "raised"
        /\ pc # "done" => response = NoResponse
        /\ err # None => pc \in {"except", "done"}
        /\ pc = "done" =>
              \/ /\ err = None
                 /\ response.status = 200
                 /\ DOMAIN response.body =
                       (IF kind = "predict"
                        THEN {"product_forecast", "category_forecast", "date_forecast"}
                        ELSE {"html"})
              \/ /\ err # None
                 /\ response = [status |-> 500, body |-> [error |-> err]]
        /\ (pc = "done" /\ kind = "predict" /\ upload.defect = "date") =>
              response.status = 500

\* the summarizer fails after the charts were rendered
C5_Witness ==
    /\ kind = "report"
    /\ pc = "done"
    /\ graphs # <<>>
    /\ response.status = 500

FeatureDone == kind = "feature" /\ pc \in {"f2", "done"}

\* C6: in the output of add_weekday_dummies every row has exactly one indicator
\* set, the one of the weekday (Monday = 0) of the row's date, and the rows are
\* the input's rows in the input's order.
C6_OneHot ==
    FeatureDone =>
        /\ Len(out1.rows) = Len(Input.rows)
        /\ \A i \in DOMAIN out1.rows :
              /\ out1.rows[i].product = Input.rows[i].product
              /\ out1.rows[i].date = [day |-> Input.rows[i].date.text]
              /\ Len(out1.rows[i].ind) = Len(out1.cols)
              /\ Cardinality({k \in DOMAIN out1.cols : out1.rows[i].ind[k]}) = 1
              /\ \A k \in DOMAIN out1.cols :
                    out1.rows[i].ind[k] <=> (out1.cols[k] = Input.rows[i].date.text % 7)

\* a table with two weekdays whose rows are not in date order
C6_Witness ==
    /\ kind = "feature"
    /\ pc = "f2"
    /\ Len(out1.cols) >= 2
    /\ out1.rows[1].date.day > out1.rows[Len(out1.rows)].date.day

\* C7 as stated: add_weekday_dummies always produces seven indicator columns,
\* one for each weekday index 0..6.
C7_SevenColumns ==
    (FeatureDone /\ out1.rows # <<>>) => Len(out1.cols) = 7 /\ Range(out1.cols) = 0 .. 6

\* C7 amended: add_weekday_dummies produces one indicator column for each
\* weekday index that occurs among the table's dates, and no other.
C7_OccurringColumns ==
    FeatureDone =>
        /\ Range(out1.cols) = InputWeekdays
        /\ Len(out1.cols) = Cardinality(InputWeekdays)

\* a table with rows and fewer than seven weekdays
C7_Witness ==
    /\ kind = "feature"
    /\ pc = "f2"
    /\ out1.rows # <<>>
    /\ Len(out1.cols) < 7

SecondDone == kind = "feature" /\ pc = "done"

\* C8 as stated: the second application leaves the indicator columns as the
\* first made them, each name once, with the same values.
C8_Idempotent ==
    SecondDone =>
        /\ out2.cols = out1.cols
        /\ \A i \in DOMAIN out2.rows : out2.rows[i].ind = out1.rows[i].ind

\* C8 amended: the second application keeps the indicator columns of the first
\* and appends a second copy of each, so the set of names is the same and every
\* copy has the values of the first application, but each name occurs twice.
C8_DuplicatedColumns ==
    SecondDone =>
        /\ out2.cols = out1.cols \o out1.cols
        /\ Range(out2.cols) = Range(out1.cols)
        /\ Len(out2.rows) = Len(out1.rows)
        /\ \A i \in DOMAIN out2.rows :
              /\ out2.rows[i].ind = out1.rows[i].ind \o out1.rows[i].ind
              /\ out2.rows[i].date = out1.rows[i].date

C8_Witness == SecondDone /\ Len(out1.cols) >= 2

OwnWeekdays(k) == {Arg.rows[i].date.day % 7 : i \in RowsOf(k)}
TableWeekdays == {Arg.rows[i].date.day % 7 : i \in DOMAIN Arg.rows}

\* C9 as stated: a group is fitted and predicted on exactly the indicator
\* columns of the weekdays that occur in its own rows.
C9_OwnColumns ==
    (pc = "fc_loop" \/ Returned) =>
        \A k \in DOMAIN fitted :
            /\ Range(fitted[k].X) = OwnWeekdays(k)
            /\ Range(fitted[k].future_df.cols) = OwnWeekdays(k)

\* C9 amended: a group is fitted and predicted on the same columns in the same
\* order, the indicator columns of the weekdays that occur anywhere in the table
\* passed to forecast; a future row has the column of its weekday set when the
\* table has that column, and no column set otherwise.
C9_TableColumns ==
    (pc = "fc_loop" \/ Returned) =>
        \A k \in DOMAIN fitted :
            /\ fitted[k].X = SortedSeq(TableWeekdays)
            /\ fitted[k].future_df.cols = fitted[k].X
            /\ Len(fitted[k].future_df.rows) = periods
            /\ \A i \in 1 .. periods :
                  /\ Len(fitted[k].future_df.rows[i]) = Len(fitted[k].X)
                  /\ \A j \in DOMAIN fitted[k].X :
                        fitted[k].future_df.rows[i][j]
                            <=> (fitted[k].X[j] = fitted[k].future_weekdays[i])

\* a group with fewer weekdays than the table, whose future weekdays and
\* training columns differ both ways
C9_Witness ==
    /\ Returned
    /\ \E k \in DOMAIN fitted :
          /\ OwnWeekdays(k) # TableWeekdays
          /\ Range(fitted[k].future_weekdays) \ Range(fitted[k].X) # {}
          /\ Range(fitted[k].X) \ Range(fitted[k].future_weekdays) # {}

\* C10: the weekday whose indicator is fed to the model for the i-th prediction
\* is the weekday of the date under which that prediction is reported.
C10_WeekdayOfDateKey ==
    (pc = "fc_loop" \/ Returned) =>
        \A k \in DOMAIN fitted : \A i \in 1 .. periods :
            fitted[k].future_weekdays[i] = target_dates[i] % 7
====
